---- MODULE Spec2Model ----
(***************************************************************************)
(* Model of src/script.js: the two-stage recipe pipeline (getRecipes) and  *)
(* the retry helper (withExponentialBackoff).                              *)
(*                                                                         *)
(* Spec         one browser page: the user clicks the submit control, the  *)
(*              two remote services answer, timers fire.                   *)
(* SpecBackoff  withExponentialBackoff alone, called with any maxRetries   *)
(*              and any operation.                                         *)
(***************************************************************************)
EXTENDS Integers, Sequences, FiniteSets, TLC

VARIABLES
    pc,             \* position of getRecipes: "idle", "stage1", "stage2", "done"
    rawPrompt,      \* value of #foodPrompt when getRecipes read it (sequence of characters)
    prompt,         \* const prompt (script.js:68), trimmed
    imageFile,      \* const imageFile (script.js:70)
    formData,       \* names of the fields appended to the FormData
    buttonDisabled, \* button.disabled
    buttonText,     \* label of the submit control
    outputDiv,      \* what #recipeContent shows
    outcome,        \* which branch ended the run
    message,        \* error.message rendered by the catch block
    stage1Calls,    \* number of fetch(API_URL) calls of the run
    response,       \* what fetch(API_URL) settled with
    ingredientsList,\* const ingredientsList (script.js:111)
    bo_pc,          \* position of withExponentialBackoff
    i,              \* loop variable of withExponentialBackoff
    maxRetries,     \* parameter of withExponentialBackoff
    plan,           \* what the operation fn does at its 1st, 2nd, ... invocation
    calls,          \* number of invocations of fn
    delays,         \* delays handed to setTimeout, in order
    bo_value,       \* value returned or error thrown by withExponentialBackoff
    health,         \* the DOMContentLoaded listener: position, URL fetched, console line
    recipeArg,      \* (recipe, idx) handed to the recipes.map callback
    recipeCard,     \* the card the callback returned
    mdText,         \* argument of simpleMarkdownToHtml
    mdHtml,         \* its result
    reader,         \* the FileReader of fileToBase64
    base64          \* the promise fileToBase64 returned

pipeVars == <<pc, rawPrompt, prompt, imageFile, formData, buttonDisabled, buttonText,
              outputDiv, outcome, message, stage1Calls, response, ingredientsList>>
boVars == <<bo_pc, i, maxRetries, plan, calls, delays, bo_value>>
pureVars == <<recipeArg, recipeCard, mdText, mdHtml, reader, base64>>
vars == <<pc, rawPrompt, prompt, imageFile, formData, buttonDisabled, buttonText,
          outputDiv, outcome, message, stage1Calls, response, ingredientsList,
          bo_pc, i, maxRetries, plan, calls, delays, bo_value,
          health, recipeArg, recipeCard, mdText, mdHtml, reader, base64>>

(***************************************************************************)
(* Bounds                                                                  *)
(***************************************************************************)
MaxPromptLen == 1
MaxAttempts == 4
MaxRecipeIngredients == 10
MaxFileBytes == 3
MaxLines == 4

(***************************************************************************)
(* Program constants                                                       *)
(***************************************************************************)
DefaultMaxRetries == 3
ShownIngredients == 8

(***************************************************************************)
(* Inputs: prompt text, selected file                                      *)
(***************************************************************************)
Chars == {" ", "e"}

RECURSIVE SeqsUpTo(_)
SeqsUpTo(n) ==
    IF n = 0 THEN {<<>>}
    ELSE LET shorter == SeqsUpTo(n - 1)
         IN  shorter \cup {Append(s, c) : s \in {t \in shorter : Len(t) = n - 1}, c \in Chars}

Prompts == SeqsUpTo(MaxPromptLen)

NoFile == "undefined"
Files == {NoFile, "photo.jpg"}

IsSpace(c) == c = " "

RECURSIVE TrimStart(_)
TrimStart(s) ==
    IF s # <<>> /\ IsSpace(Head(s)) THEN TrimStart(Tail(s)) ELSE s

RECURSIVE TrimEnd(_)
TrimEnd(s) ==
    IF s # <<>> /\ IsSpace(s[Len(s)]) THEN TrimEnd(SubSeq(s, 1, Len(s) - 1)) ELSE s

TrimNone(s) == s

\* String.prototype.trim
Trim(s) == TrimEnd(TrimStart(s))

\* if (!prompt && !imageFile)
ValidationFails(p, f) == p = <<>> /\ f = NoFile

\* formData.append('image', ...) / formData.append('prompt', ...)
BuildFormData(p, f) ==
    (IF f # NoFile THEN {"image"} ELSE {}) \cup (IF p # <<>> THEN {"prompt"} ELSE {})

(***************************************************************************)
(* JSON bodies.  has = the fields the object carries; a field that is not  *)
(* in has reads as undefined.                                              *)
(***************************************************************************)
JsonObject(has, success, error, ingredients, recipes, total_found) ==
    [type |-> "object", has |-> has, success |-> success, error |-> error,
     ingredients |-> ingredients, recipes |-> recipes, total_found |-> total_found]

EmptyObject == JsonObject({}, FALSE, "", <<>>, <<>>, 0)
JsonNull == [EmptyObject EXCEPT !.type = "null"]
JsonInvalid == [EmptyObject EXCEPT !.type = "invalid"]

Pancakes == [title |-> "Pancakes", has |-> {"ingredients"},
             ingredients |-> <<"egg", "flour", "milk">>]

Stage1Bodies ==
    { JsonInvalid, JsonNull, EmptyObject,
      JsonObject({"error"}, FALSE, "", <<>>, <<>>, 0),
      JsonObject({"error"}, FALSE, "quota exceeded", <<>>, <<>>, 0),
      JsonObject({"success"}, FALSE, "", <<>>, <<>>, 0),
      JsonObject({"success", "error"}, FALSE, "no food found", <<>>, <<>>, 0),
      JsonObject({"success"}, TRUE, "", <<>>, <<>>, 0),
      JsonObject({"ingredients"}, FALSE, "", <<"egg">>, <<>>, 0),
      JsonObject({"success", "ingredients"}, TRUE, "", <<>>, <<>>, 0),
      JsonObject({"success", "ingredients"}, TRUE, "", <<"egg">>, <<>>, 0),
      JsonObject({"success", "ingredients"}, TRUE, "", <<"egg", "flour">>, <<>>, 0) }

Stage2Bodies ==
    { JsonInvalid, JsonNull,
      JsonObject({"success"}, FALSE, "", <<>>, <<>>, 0),
      JsonObject({"success", "error"}, FALSE, "database down", <<>>, <<>>, 0),
      JsonObject({"success"}, TRUE, "", <<>>, <<>>, 0),
      JsonObject({"success", "recipes", "total_found"}, TRUE, "", <<>>, <<>>, 0),
      JsonObject({"success", "recipes", "total_found"}, TRUE, "", <<>>, <<Pancakes>>, 1) }

(***************************************************************************)
(* What a call of fetch settles with.                                      *)
(***************************************************************************)
\* Response.ok
StatusOk(status) == status >= 200 /\ status <= 299

Resolved(status, statusText, body) ==
    [kind |-> "resolve", ok |-> StatusOk(status), status |-> status,
     statusText |-> statusText, body |-> body, message |-> ""]

Rejected(msg) ==
    [kind |-> "reject", ok |-> FALSE, status |-> 0, statusText |-> "",
     body |-> JsonInvalid, message |-> msg]

NoOutcome == [Rejected("") EXCEPT !.kind = "none"]

NetworkError == Rejected("Failed to fetch")

Stage1Outcomes ==
    {NetworkError}
    \cup {Resolved(200, "OK", b) : b \in Stage1Bodies}
    \cup {Resolved(500, "Internal Server Error", b) : b \in Stage1Bodies}

Stage2Outcomes ==
    {NetworkError, Resolved(503, "Service Unavailable", JsonInvalid)}
    \cup {Resolved(200, "OK", b) : b \in Stage2Bodies}

(***************************************************************************)
(* Error messages                                                          *)
(***************************************************************************)
\* message of the SyntaxError response.json() rejects with
SyntaxErrorMessage == "Unexpected token < in JSON at position 0"
\* message of the TypeError a property read of null throws
NullReadMessage(field) == "Cannot read properties of null (reading '" \o field \o "')"

ServerErrorMessage(status, statusText) ==
    "Server error: " \o ToString(status) \o " " \o statusText

RecipeFetchFailedMessage(statusText) == "Recipe fetch failed: " \o statusText

\* obj.error || fallback
ErrorOr(obj, fallback) ==
    IF "error" \in obj.has /\ obj.error # "" THEN obj.error ELSE fallback

\* response.json().catch(() => ({}))
JsonOrEmpty(body) == IF body.type = "invalid" THEN EmptyObject ELSE body

(***************************************************************************)
(* Output markup                                                           *)
(***************************************************************************)
Markup(kind, ingredients, recipes, total, msg) ==
    [kind |-> kind, ingredients |-> ingredients, recipes |-> recipes,
     total |-> total, message |-> msg]

Plain(kind) == Markup(kind, <<>>, <<>>, 0, "")

\* the bullet that starts an ingredient line of a card (script.js:171), in ASCII
Bullet == "* "

\* Array.prototype.slice(0, n)
SliceFromStart(list, n) == SubSeq(list, 1, IF Len(list) < n THEN Len(list) ELSE n)

MoreCountOffByOne(n) == IF n >= ShownIngredients THEN n - ShownIngredients + 1 ELSE 0

\* const moreCount = recipeIngredients.length > 8 ? recipeIngredients.length - 8 : 0
MoreCount(n) == IF n > ShownIngredients THEN n - ShownIngredients ELSE 0

\* The recipes.map callback (script.js:168-184): the card of one recipe.
RecipeCard(recipe, idx) ==
    LET recipeIngredients ==
            IF "ingredients" \in recipe.has THEN recipe.ingredients ELSE <<>>
        shown == SliceFromStart(recipeIngredients, ShownIngredients)
        moreCount == MoreCount(Len(recipeIngredients))
    IN  [heading |-> ToString(idx + 1) \o ". " \o recipe.title,
         lines |-> [k \in 1..Len(shown) |-> Bullet \o shown[k]],
         more |-> IF moreCount > 0
                  THEN "+ " \o ToString(moreCount) \o " more ingredients"
                  ELSE ""]

\* recipes.map(...): one card per recipe, in server order
RecipesHTML(recipes) == [k \in 1..Len(recipes) |-> RecipeCard(recipes[k], k - 1)]

(***************************************************************************)
(* Initial state: the page as loaded, nothing submitted yet.               *)
(***************************************************************************)
Undefined == [id |-> 0, out |-> NoOutcome]

\* const API_URL
API_URL == <<"https://ingredient-analyzer-beta.vercel.app", "/api", "/analyze">>

HealthIdle == [pc |-> "idle", url |-> <<>>, log |-> ""]

NoRecipeArg == [recipe |-> [title |-> "", has |-> {}, ingredients |-> <<>>], idx |-> 0]
NoCard == [heading |-> "", lines |-> <<>>, more |-> ""]
NoReader == [file |-> [type |-> "", bytes |-> <<>>], readyState |-> "EMPTY", event |-> "", result |-> <<>>]
NoPromise == [state |-> "none", value |-> <<>>]
NoHtml == <<"undefined">>

PageInit ==
    /\ pc = "idle"
    /\ rawPrompt = <<>>
    /\ prompt = <<>>
    /\ imageFile = NoFile
    /\ formData = {}
    /\ buttonDisabled = FALSE
    /\ buttonText = "Get Recipes"
    /\ outputDiv = Plain("initial")
    /\ outcome = "None"
    /\ message = ""
    /\ stage1Calls = 0
    /\ response = NoOutcome
    /\ ingredientsList = <<>>
    /\ bo_pc = "idle"
    /\ i = 0
    /\ maxRetries = DefaultMaxRetries
    /\ plan = <<>>
    /\ calls = 0
    /\ delays = <<>>
    /\ bo_value = Undefined
    /\ health = HealthIdle

\* nothing rendered, transformed or read yet
CardIdle == recipeArg = NoRecipeArg /\ recipeCard = NoCard
MarkdownIdle == mdText = <<>> /\ mdHtml = NoHtml
EncoderIdle == reader = NoReader /\ base64 = NoPromise

Init == PageInit /\ CardIdle /\ MarkdownIdle /\ EncoderIdle

(***************************************************************************)
(* withExponentialBackoff (script.js:53-63)                                *)
(***************************************************************************)
\* for (...; i < maxRetries; ...)
LoopCond(k, m) == k < m

IsLastAttemptNever(k, m) == k = m

\* if (i === maxRetries - 1) throw error
IsLastAttempt(k, m) == k = m - 1

DelayLinear(k) == (k + 1) * 1000

\* const delay = Math.pow(2, i) * 1000
Delay(k) == (2 ^ k) * 1000

\* The loop head with loop variable k: either fn is invoked once more or the
\* loop ends and the function returns undefined.
LoopHead(k) ==
    /\ i' = k
    /\ IF LoopCond(k, maxRetries)
       THEN /\ calls' = calls + 1
            /\ bo_pc' = "awaitFn"
            /\ bo_value' = Undefined
       ELSE /\ calls' = calls
            /\ bo_pc' = "returned"
            /\ bo_value' = Undefined

\* Call withExponentialBackoff(fn, m), fn behaving as p says.
BackoffEnter(m, p) ==
    /\ maxRetries' = m
    /\ plan' = p
    /\ delays' = <<>>
    /\ i' = 0
    /\ IF LoopCond(0, m)
       THEN /\ calls' = 1
            /\ bo_pc' = "awaitFn"
            /\ bo_value' = Undefined
       ELSE /\ calls' = 0
            /\ bo_pc' = "returned"
            /\ bo_value' = Undefined

FnResolvesNoReturn ==
    /\ UNCHANGED <<health, pureVars>>
    /\ bo_pc = "awaitFn"
    /\ plan[calls].kind = "resolve"
    /\ LoopHead(i + 1)
    /\ UNCHANGED <<maxRetries, plan, delays>>
    /\ UNCHANGED pipeVars

\* return await fn(), fn fulfilled
FnResolves ==
    /\ UNCHANGED <<health, pureVars>>
    /\ bo_pc = "awaitFn"
    /\ plan[calls].kind = "resolve"
    /\ bo_pc' = "returned"
    /\ bo_value' = [id |-> calls, out |-> plan[calls]]
    /\ UNCHANGED <<i, maxRetries, plan, calls, delays>>
    /\ UNCHANGED pipeVars

\* catch (error): fn rejected
FnRejects ==
    /\ UNCHANGED <<health, pureVars>>
    /\ bo_pc = "awaitFn"
    /\ plan[calls].kind = "reject"
    /\ IF IsLastAttempt(i, maxRetries)
       THEN /\ bo_pc' = "threw"
            /\ bo_value' = [id |-> calls, out |-> plan[calls]]
            /\ delays' = delays
       ELSE /\ bo_pc' = "sleeping"
            /\ bo_value' = bo_value
            /\ delays' = Append(delays, Delay(i))
    /\ UNCHANGED <<i, maxRetries, plan, calls>>
    /\ UNCHANGED pipeVars

\* the setTimeout callback resolves the delay promise; i++ and the loop head
TimerFires ==
    /\ UNCHANGED <<health, pureVars>>
    /\ bo_pc = "sleeping"
    /\ LoopHead(i + 1)
    /\ UNCHANGED <<maxRetries, plan, delays>>
    /\ UNCHANGED pipeVars

(***************************************************************************)
(* getRecipes (script.js:67-225)                                           *)
(***************************************************************************)
FinallySkipped == UNCHANGED <<buttonDisabled, buttonText>>

\* finally { button.disabled = false; buttonText.textContent = 'Get Recipes' }
Finally ==
    /\ buttonDisabled' = FALSE
    /\ buttonText' = "Get Recipes"

CatchKeepsOutput(msg) ==
    /\ outputDiv' = outputDiv
    /\ outcome' = "Failed"
    /\ message' = msg
    /\ pc' = "done"
    /\ Finally

\* catch (error) { outputDiv.innerHTML = ... error.message ... } finally {...}
Catch(msg) ==
    /\ outputDiv' = Markup("error", <<>>, <<>>, 0, msg)
    /\ outcome' = "Failed"
    /\ message' = msg
    /\ pc' = "done"
    /\ Finally

Throw(msg) == [branch |-> "throw", msg |-> msg]
Branch(name) == [branch |-> name, msg |-> ""]

Stage1HttpNeverFailed(resp) == FALSE

\* if (!response.ok)
Stage1HttpFailed(resp) == ~resp.ok

Stage1AcceptedSuccessOnly(result) ==
    "success" \in result.has /\ result.success

\* if (result.success && result.ingredients)
Stage1Accepted(result) ==
    /\ "success" \in result.has /\ result.success
    /\ "ingredients" \in result.has

NoIngredientsNever(list) == FALSE

\* if (ingredientsList.length === 0)
NoIngredients(list) == Len(list) = 0

\* The try block from the fulfilled fetch(API_URL) to the call of
\* withExponentialBackoff: which way it leaves.
Stage1Eval(resp) ==
    IF Stage1HttpFailed(resp)
    THEN LET errorData == JsonOrEmpty(resp.body)
         IN  IF errorData.type = "null"
             THEN Throw(NullReadMessage("error"))
             ELSE Throw(ErrorOr(errorData, ServerErrorMessage(resp.status, resp.statusText)))
    ELSE LET result == resp.body
         IN  IF result.type = "invalid" THEN Throw(SyntaxErrorMessage)
             ELSE IF result.type = "null" THEN Throw(NullReadMessage("success"))
             ELSE IF Stage1Accepted(result)
                  THEN IF NoIngredients(result.ingredients)
                       THEN Branch("empty")
                       ELSE Branch("stage2")
                  ELSE Throw(ErrorOr(result, "Unknown error from backend"))

\* if (recipesResult.success && recipesResult.recipes)
Stage2Accepted(result) ==
    /\ "success" \in result.has /\ result.success
    /\ "recipes" \in result.has

\* The try block after withExponentialBackoff returned v: which way it leaves.
Stage2Eval(v) ==
    IF v.kind = "none" THEN Throw("Cannot read properties of undefined (reading 'ok')")
    ELSE IF ~v.ok THEN Throw(RecipeFetchFailedMessage(v.statusText))
    ELSE LET result == v.body
         IN  IF result.type = "invalid" THEN Throw(SyntaxErrorMessage)
             ELSE IF result.type = "null" THEN Throw(NullReadMessage("success"))
             ELSE IF Stage2Accepted(result)
                  THEN IF Len(result.recipes) = 0
                       THEN Branch("norecipes")
                       ELSE Branch("recipes")
                  ELSE Throw(ErrorOr(result, "Failed to get recipes"))

LoadingStateButtonEnabled ==
    /\ buttonDisabled' = FALSE
    /\ buttonText' = "Analyzing..."
    /\ outputDiv' = Plain("analyzing")

\* Set loading state (lines 81-84)
LoadingState ==
    /\ buttonDisabled' = TRUE
    /\ buttonText' = "Analyzing..."
    /\ outputDiv' = Plain("analyzing")

IntermediateMarkupMissing(list) == Plain("analyzing")

\* "Detected Ingredients (n)" ... "Finding recipes..." (lines 123-131)
IntermediateMarkup(list) == Markup("finding", list, <<>>, 0, "")

\* The user activates the submit control; a disabled control dispatches no
\* click.  Lines 67-101: validation, loading state, FormData, fetch(API_URL).
GetRecipes ==
    /\ UNCHANGED <<health, pureVars>>
    /\ ~buttonDisabled
    /\ \E raw \in Prompts, file \in Files :
        /\ rawPrompt' = raw
        /\ prompt' = Trim(raw)
        /\ imageFile' = file
        /\ message' = ""
        /\ response' = NoOutcome
        /\ ingredientsList' = <<>>
        /\ bo_pc' = "idle" /\ i' = 0 /\ maxRetries' = DefaultMaxRetries
        /\ plan' = <<>> /\ calls' = 0 /\ delays' = <<>> /\ bo_value' = Undefined
        /\ IF ValidationFails(prompt', file)
           THEN /\ outputDiv' = Plain("validationWarning")
                /\ outcome' = "ValidationFailed"
                /\ pc' = "done"
                /\ formData' = {}
                /\ stage1Calls' = 0
                /\ UNCHANGED <<buttonDisabled, buttonText>>
           ELSE /\ LoadingState
                /\ formData' = BuildFormData(prompt', file)
                /\ outcome' = "None"
                /\ stage1Calls' = 1
                /\ pc' = "stage1"

\* fetch(API_URL) rejected: catch, finally
Stage1Rejects ==
    /\ UNCHANGED <<health, pureVars>>
    /\ pc = "stage1"
    /\ \E resp \in {o \in Stage1Outcomes : o.kind = "reject"} :
        /\ response' = resp
        /\ Catch(resp.message)
    /\ UNCHANGED <<rawPrompt, prompt, imageFile, formData, stage1Calls, ingredientsList>>
    /\ UNCHANGED boVars

\* fetch(API_URL) fulfilled: lines 103-145
Stage1Resolves ==
    /\ UNCHANGED <<health, pureVars>>
    /\ pc = "stage1"
    /\ \E resp \in {o \in Stage1Outcomes : o.kind = "resolve"} :
        LET way == Stage1Eval(resp)
        IN  /\ response' = resp
            /\ CASE way.branch = "throw" ->
                      /\ Catch(way.msg)
                      /\ UNCHANGED ingredientsList
                      /\ UNCHANGED boVars
                 [] way.branch = "empty" ->
                      /\ ingredientsList' = resp.body.ingredients
                      /\ outputDiv' = Plain("noIngredients")
                      /\ outcome' = "IngredientsEmpty"
                      /\ pc' = "done"
                      /\ Finally
                      /\ UNCHANGED message
                      /\ UNCHANGED boVars
                 [] way.branch = "stage2" ->
                      /\ ingredientsList' = resp.body.ingredients
                      /\ outputDiv' = IntermediateMarkup(resp.body.ingredients)
                      /\ buttonText' = "Finding Recipes"
                      /\ pc' = "stage2"
                      /\ \E p \in [1..DefaultMaxRetries -> Stage2Outcomes] :
                            BackoffEnter(DefaultMaxRetries, p)
                      /\ UNCHANGED <<buttonDisabled, outcome, message>>
    /\ UNCHANGED <<rawPrompt, prompt, imageFile, formData, stage1Calls>>

\* withExponentialBackoff returned: lines 147-198, finally
Stage2Returned ==
    /\ UNCHANGED <<health, pureVars>>
    /\ pc = "stage2"
    /\ bo_pc = "returned"
    /\ LET way == Stage2Eval(bo_value.out)
           result == bo_value.out.body
       IN  CASE way.branch = "throw" -> Catch(way.msg)
            [] way.branch = "norecipes" ->
                 /\ outputDiv' = Markup("noRecipes", ingredientsList, <<>>, 0, "")
                 /\ outcome' = "RecipesEmpty"
                 /\ pc' = "done"
                 /\ Finally
                 /\ UNCHANGED message
            [] way.branch = "recipes" ->
                 /\ outputDiv' = Markup("recipes", ingredientsList, RecipesHTML(result.recipes),
                                        result.total_found, "")
                 /\ outcome' = "Success"
                 /\ pc' = "done"
                 /\ Finally
                 /\ UNCHANGED message
    /\ bo_pc' = "idle"
    /\ UNCHANGED <<i, maxRetries, plan, calls, delays, bo_value>>
    /\ UNCHANGED <<rawPrompt, prompt, imageFile, formData, stage1Calls, response,
                   ingredientsList>>

\* withExponentialBackoff threw: catch, finally
Stage2Threw ==
    /\ UNCHANGED <<health, pureVars>>
    /\ pc = "stage2"
    /\ bo_pc = "threw"
    /\ Catch(bo_value.out.message)
    /\ bo_pc' = "idle"
    /\ UNCHANGED <<i, maxRetries, plan, calls, delays, bo_value>>
    /\ UNCHANGED <<rawPrompt, prompt, imageFile, formData, stage1Calls, response,
                   ingredientsList>>

(***************************************************************************)
(* The DOMContentLoaded listener (script.js:228-238)                       *)
(***************************************************************************)
\* String.prototype.replace(from, to) on a URL cut into segments: the first
\* occurrence is replaced
RECURSIVE ReplaceFirst(_, _, _)
ReplaceFirst(url, from, to) ==
    IF url = <<>> THEN <<>>
    ELSE IF Head(url) = from THEN <<to>> \o Tail(url)
    ELSE <<Head(url)>> \o ReplaceFirst(Tail(url), from, to)

HealthStatuses == {200, 500}

\* DOMContentLoaded fires: fetch(healthUrl) is issued
HealthProbe ==
    /\ health.pc = "idle"
    /\ health' = [pc |-> "pending",
                  url |-> ReplaceFirst(API_URL, "/analyze", "/health"),
                  log |-> ""]
    /\ UNCHANGED <<pipeVars, boVars, pureVars>>

\* fetch(healthUrl) fulfilled: console.log when response.ok
HealthFulfilled ==
    /\ health.pc = "pending"
    /\ \E status \in HealthStatuses :
          health' = [health EXCEPT !.pc = "done",
                                   !.log = IF StatusOk(status)
                                           THEN "Backend API is reachable"
                                           ELSE ""]
    /\ UNCHANGED <<pipeVars, boVars, pureVars>>

HealthRejectedShowsError ==
    /\ health.pc = "pending"
    /\ health' = [health EXCEPT !.pc = "done",
                                 !.log = "Could not reach backend API: "
                                           \o NetworkError.message]
    /\ outputDiv' = Markup("error", <<>>, <<>>, 0, NetworkError.message)
    /\ UNCHANGED <<pc, rawPrompt, prompt, imageFile, formData, buttonDisabled,
                   buttonText, outcome, message, stage1Calls, response,
                   ingredientsList>>
    /\ UNCHANGED <<boVars, pureVars>>

\* fetch(healthUrl) rejected: console.warn
HealthRejected ==
    /\ health.pc = "pending"
    /\ health' = [health EXCEPT !.pc = "done",
                                 !.log = "Could not reach backend API: "
                                           \o NetworkError.message]
    /\ UNCHANGED <<pipeVars, boVars, pureVars>>

Next ==
    \/ HealthProbe
    \/ HealthFulfilled
    \/ HealthRejected
    \/ GetRecipes
    \/ Stage1Rejects
    \/ Stage1Resolves
    \/ FnResolves
    \/ FnRejects
    \/ TimerFires
    \/ Stage2Returned
    \/ Stage2Threw

Spec == Init /\ [][Next]_vars

\* Every HTTP call settles, every timer fires, every continuation runs; the
\* user and the page-load event are under no obligation.
Fairness ==
    /\ WF_vars(Stage1Rejects \/ Stage1Resolves)
    /\ WF_vars(FnResolves \/ FnRejects)
    /\ WF_vars(TimerFires)
    /\ WF_vars(Stage2Returned \/ Stage2Threw)

SpecLive == Init /\ [][Next]_vars /\ Fairness

(***************************************************************************)
(* withExponentialBackoff on its own: any maxRetries, any operation.       *)
(***************************************************************************)
OperationOutcomes ==
    { NetworkError, Rejected("timeout"),
      Resolved(200, "OK", EmptyObject),
      Resolved(503, "Service Unavailable", JsonInvalid) }

CallBackoff ==
    /\ UNCHANGED <<health, pureVars>>
    /\ pc = "idle"
    /\ bo_pc \in {"idle", "returned", "threw"}
    /\ \E m \in 0..MaxAttempts :
        \E p \in [1..m -> OperationOutcomes] : BackoffEnter(m, p)
    /\ UNCHANGED pipeVars

NextBackoff ==
    \/ CallBackoff
    \/ FnResolves
    \/ FnRejects
    \/ TimerFires

SpecBackoff == Init /\ [][NextBackoff]_vars

(***************************************************************************)
(* fileToBase64 (script.js:9-16) on its own: any file, any end of the read.*)
(***************************************************************************)
Base64Alphabet ==
    << "A", "B", "C", "D", "E", "F", "G", "H", "I", "J", "K", "L", "M", "N", "O", "P",
       "Q", "R", "S", "T", "U", "V", "W", "X", "Y", "Z", "a", "b", "c", "d", "e", "f",
       "g", "h", "i", "j", "k", "l", "m", "n", "o", "p", "q", "r", "s", "t", "u", "v",
       "w", "x", "y", "z", "0", "1", "2", "3", "4", "5", "6", "7", "8", "9", "+", "/" >>

Sextet(n) == Base64Alphabet[n + 1]

\* the base64 text FileReader.readAsDataURL puts after the comma
RECURSIVE Base64(_)
Base64(bytes) ==
    IF Len(bytes) = 0 THEN <<>>
    ELSE IF Len(bytes) = 1
         THEN LET n == bytes[1] * 65536
              IN  <<Sextet(n \div 262144), Sextet((n \div 4096) % 64), "=", "=">>
    ELSE IF Len(bytes) = 2
         THEN LET n == bytes[1] * 65536 + bytes[2] * 256
              IN  <<Sextet(n \div 262144), Sextet((n \div 4096) % 64),
                    Sextet((n \div 64) % 64), "=">>
    ELSE LET n == bytes[1] * 65536 + bytes[2] * 256 + bytes[3]
         IN  <<Sextet(n \div 262144), Sextet((n \div 4096) % 64),
               Sextet((n \div 64) % 64), Sextet(n % 64)>>
             \o Base64(SubSeq(bytes, 4, Len(bytes)))

\* reader.result after a successful readAsDataURL
DataURL(file) == <<"data:", file.type, ";base64", ",">> \o Base64(file.bytes)

\* String.prototype.split(sep)
RECURSIVE Split(_, _)
Split(text, sep) ==
    IF \A k \in 1..Len(text) : text[k] # sep THEN <<text>>
    ELSE LET at == CHOOSE k \in 1..Len(text) :
                       text[k] = sep /\ \A j \in 1..(k - 1) : text[j] # sep
         IN  <<SubSeq(text, 1, at - 1)>> \o Split(SubSeq(text, at + 1, Len(text)), sep)

ByteValues == {77, 255}

RECURSIVE BytesUpTo(_)
BytesUpTo(n) ==
    IF n = 0 THEN {<<>>}
    ELSE LET shorter == BytesUpTo(n - 1)
         IN  shorter \cup {Append(b, v) : b \in {t \in shorter : Len(t) = n - 1},
                                           v \in ByteValues}

ReadableFiles ==
    {[type |-> t, bytes |-> b] : t \in {"image/png", "image/jpeg"}, b \in BytesUpTo(MaxFileBytes)}

\* fileToBase64(file): new FileReader(), readAsDataURL(file), handlers set
FileToBase64 ==
    /\ reader.readyState = "EMPTY"
    /\ \E file \in ReadableFiles :
          reader' = [file |-> file, readyState |-> "LOADING", event |-> "", result |-> <<>>]
    /\ base64' = [state |-> "pending", value |-> <<>>]
    /\ UNCHANGED <<pipeVars, boVars, health, recipeArg, recipeCard, mdText, mdHtml>>

\* the read succeeds: load event, reader.onload resolves with split(',')[1]
ReaderLoad ==
    /\ reader.readyState = "LOADING"
    /\ LET result == DataURL(reader.file)
       IN  /\ reader' = [reader EXCEPT !.readyState = "DONE", !.event = "load",
                                        !.result = result]
           /\ base64' = [state |-> "fulfilled", value |-> Split(result, ",")[2]]
    /\ UNCHANGED <<pipeVars, boVars, health, recipeArg, recipeCard, mdText, mdHtml>>

\* the read fails: error event, reader.onerror = reject
ReaderError ==
    /\ reader.readyState = "LOADING"
    /\ reader' = [reader EXCEPT !.readyState = "DONE", !.event = "error"]
    /\ base64' = [state |-> "rejected", value |-> <<"error event">>]
    /\ UNCHANGED <<pipeVars, boVars, health, recipeArg, recipeCard, mdText, mdHtml>>

\* the read is aborted: abort event; no handler is registered for it
ReaderAbort ==
    /\ reader.readyState = "LOADING"
    /\ reader' = [reader EXCEPT !.readyState = "DONE", !.event = "abort"]
    /\ base64' = base64
    /\ UNCHANGED <<pipeVars, boVars, health, recipeArg, recipeCard, mdText, mdHtml>>

NextEncoder ==
    \/ FileToBase64
    \/ ReaderLoad
    \/ ReaderError
    \/ ReaderAbort

SpecEncoder == Init /\ [][NextEncoder]_vars

(***************************************************************************)
(* simpleMarkdownToHtml (script.js:32-50) on its own.  A text is a         *)
(* sequence of characters; a tag the function writes, or finds in its      *)
(* input, is one element.                                                  *)
(***************************************************************************)
NL == "\n"
H3Open == "<h3 class=\"text-xl font-semibold mt-4 mb-2\">"
H3Close == "</h3>"
H2Open == "<h2 class=\"text-2xl font-bold mt-6 mb-3 text-blue-800\">"
H2Close == "</h2>"
H1Open == "<h1 class=\"text-3xl font-extrabold mt-8 mb-4\">"
H1Close == "</h1>"
LiOpen == "<li class=\"ml-6\">"
LiClose == "</li>"
LiBare == "<li>"
UlOpen == "<ul class=\"list-disc my-2\">"
UlClose == "</ul>"
HrTag == "<hr class=\"border-t-2 border-gray-200 my-6\"/>"
StrongOpen == "<strong>"
StrongClose == "</strong>"
EmOpen == "<em>"
EmClose == "</em>"
POpen == "<p class=\"mb-2\">"
PClose == "</p>"

Tags == {H3Open, H3Close, H2Open, H2Close, H1Open, H1Close, LiOpen, LiClose, LiBare,
         UlOpen, UlClose, HrTag, StrongOpen, StrongClose, EmOpen, EmClose, POpen, PClose}

RECURSIVE Join(_, _)
\* Array.prototype.join(sep)
Join(lines, sep) ==
    IF Len(lines) = 0 THEN <<>>
    ELSE IF Len(lines) = 1 THEN lines[1]
    ELSE lines[1] \o <<sep>> \o Join(Tail(lines), sep)

StartsWith(line, prefix) ==
    Len(line) >= Len(prefix) /\ SubSeq(line, 1, Len(prefix)) = prefix

\* .replace(/^prefix(.+)$/gm, open $1 close) on one line
PrefixRule(line, prefix, open, close) ==
    IF StartsWith(line, prefix) /\ Len(line) > Len(prefix)
    THEN <<open>> \o SubSeq(line, Len(prefix) + 1, Len(line)) \o <<close>>
    ELSE line

\* .replace(/^### (.+)$/gm, ...), /^## (.+)$/gm, /^# (.+)$/gm
Headings(text) ==
    LET R3(l) == PrefixRule(l, <<"#", "#", "#", " ">>, H3Open, H3Close)
        R2(l) == PrefixRule(l, <<"#", "#", " ">>, H2Open, H2Close)
        R1(l) == PrefixRule(l, <<"#", " ">>, H1Open, H1Close)
        ls == Split(text, NL)
    IN  Join([k \in 1..Len(ls) |-> R1(R2(R3(ls[k])))], NL)

\* .replace(/^\* (.+)$/gm, '<li class="ml-6">$1</li>')
ListItems(text) ==
    LET R(l) == PrefixRule(l, <<"*", " ">>, LiOpen, LiClose)
        ls == Split(text, NL)
    IN  Join([k \in 1..Len(ls) |-> R(ls[k])], NL)

\* .replace(/(<li>.*<\/li>\n?)+/gs, '<ul class="list-disc my-2">$&</ul>'):
\* the match starts at the first literal <li> that has a </li> after it and,
\* .* being greedy and matching newlines, runs to the last </li> of the text
\* and the newline after it.
WrapLists(text) ==
    LET opens == {k \in 1..Len(text) : text[k] = LiBare
                     /\ \E j \in (k + 1)..Len(text) : text[j] = LiClose}
    IN  IF opens = {} THEN text
        ELSE LET from == CHOOSE k \in opens : \A j \in opens : k <= j
                 last == CHOOSE k \in 1..Len(text) :
                            text[k] = LiClose
                            /\ \A j \in (k + 1)..Len(text) : text[j] # LiClose
                 to == IF last < Len(text) /\ text[last + 1] = NL THEN last + 1 ELSE last
             IN  SubSeq(text, 1, from - 1) \o <<UlOpen>> \o SubSeq(text, from, to)
                   \o <<UlClose>> \o SubSeq(text, to + 1, Len(text))

\* .replace(/^---$/gm, '<hr .../>')
HorizontalRules(text) ==
    LET R(l) == IF l = <<"-", "-", "-">> THEN <<HrTag>> ELSE l
        ls == Split(text, NL)
    IN  Join([k \in 1..Len(ls) |-> R(ls[k])], NL)

\* .replace(/\*{d}(.+?)\*{d}/g, open $1 close) on one line: leftmost match,
\* shortest content of at least one character, then on after the match
RECURSIVE Emphasis(_, _, _, _)
Emphasis(line, d, open, close) ==
    LET Stars(p) == p + d - 1 <= Len(line) /\ \A j \in p..(p + d - 1) : line[j] = "*"
        starts == {p \in 1..Len(line) :
                      Stars(p) /\ \E q \in (p + d + 1)..Len(line) : Stars(q)}
    IN  IF starts = {} THEN line
        ELSE LET p == CHOOSE x \in starts : \A y \in starts : x <= y
                 ends == {q \in (p + d + 1)..Len(line) : Stars(q)}
                 q == CHOOSE x \in ends : \A y \in ends : x <= y
             IN  SubSeq(line, 1, p - 1) \o <<open>> \o SubSeq(line, p + d, q - 1)
                   \o <<close>>
                   \o Emphasis(SubSeq(line, q + d, Len(line)), d, open, close)

\* .replace(/\*\*(.+?)\*\*/g, '<strong>$1</strong>')
Bold(text) ==
    LET R(l) == Emphasis(l, 2, StrongOpen, StrongClose)
        ls == Split(text, NL)
    IN  Join([k \in 1..Len(ls) |-> R(ls[k])], NL)

\* .replace(/\*(.+?)\*/g, '<em>$1</em>')
Italic(text) ==
    LET R(l) == Emphasis(l, 1, EmOpen, EmClose)
        ls == Split(text, NL)
    IN  Join([k \in 1..Len(ls) |-> R(ls[k])], NL)

\* .split('\n').map(line => line.trim() && !line.startsWith('<') ? <p>line</p> : line).join('\n')
Paragraphs(text) ==
    LET R(l) == IF Trim(l) # <<>> /\ ~(Head(l) \in Tags)
                THEN <<POpen>> \o l \o <<PClose>>
                ELSE l
        ls == Split(text, NL)
    IN  Join([k \in 1..Len(ls) |-> R(ls[k])], NL)

simpleMarkdownToHtml(text) ==
    Paragraphs(Italic(Bold(HorizontalRules(WrapLists(ListItems(Headings(text)))))))

MarkdownLines ==
    { <<"#", "#", " ", "T">>, <<"#", "#", "#", " ", "T">>, <<"#", " ", "T">>,
      <<"*", " ", "a">>, <<"*", " ", "b">>,
      <<"*", "*", "b", "o", "*", "*">>, <<"*", "i", "*">>,
      <<"-", "-", "-">>, <<"p">>,
      <<LiBare, "x", LiClose>> }

RECURSIVE TextsOfLines(_)
TextsOfLines(n) ==
    IF n = 0 THEN {<<>>}
    ELSE LET shorter == TextsOfLines(n - 1)
         IN  shorter \cup {Append(t, l) : t \in {u \in shorter : Len(u) = n - 1},
                                           l \in MarkdownLines}

MarkdownTexts == {Join(t, NL) : t \in TextsOfLines(MaxLines)}

InitMarkdown ==
    /\ PageInit /\ CardIdle /\ EncoderIdle
    /\ mdText \in MarkdownTexts
    /\ mdHtml = NoHtml

Transform ==
    /\ mdHtml = NoHtml
    /\ mdHtml' = simpleMarkdownToHtml(mdText)
    /\ UNCHANGED <<pipeVars, boVars, health, recipeArg, recipeCard, mdText, reader, base64>>

NextMarkdown == Transform

SpecMarkdown == InitMarkdown /\ [][NextMarkdown]_vars

(***************************************************************************)
(* The recipe card on its own: any recipe, any rank.                       *)
(***************************************************************************)
Numbered(n) == [k \in 1..n |-> "ingredient " \o ToString(k)]
Reversed(list) == [k \in 1..Len(list) |-> list[Len(list) + 1 - k]]

RecipeArgs ==
    { [recipe |-> [title |-> t, has |-> h, ingredients |-> l], idx |-> x] :
        t \in {"Pancakes", "Soup"},
        h \in {{"ingredients"}},
        l \in {Numbered(n) : n \in 0..MaxRecipeIngredients}
               \cup {Reversed(Numbered(n)) : n \in 0..MaxRecipeIngredients},
        x \in 0..4 }
    \cup
    { [recipe |-> [title |-> t, has |-> {}, ingredients |-> <<>>], idx |-> x] :
        t \in {"Pancakes", "Soup"}, x \in 0..4 }

InitCard ==
    /\ PageInit /\ MarkdownIdle /\ EncoderIdle
    /\ recipeArg \in RecipeArgs
    /\ recipeCard = NoCard

RenderCard ==
    /\ recipeCard = NoCard
    /\ recipeCard' = RecipeCard(recipeArg.recipe, recipeArg.idx)
    /\ UNCHANGED <<pipeVars, boVars, health, recipeArg, mdText, mdHtml, reader, base64>>

NextCard == RenderCard

SpecCard == InitCard /\ [][NextCard]_vars

(***************************************************************************)
(* Properties                                                              *)
(***************************************************************************)
AllBlank(s) == \A k \in 1..Len(s) : s[k] = " "

RECURSIVE Pow2(_)
Pow2(n) == IF n = 0 THEN 1 ELSE 2 * Pow2(n - 1)

\* C1: a run whose prompt field holds nothing but whitespace and whose file
\* input holds no file ends in ValidationFailed: the warning is shown and the
\* run issues neither the ingredient-detection nor the recipe-lookup request.
C1_BlankInputEndsInValidationFailed ==
    (pc # "idle" /\ AllBlank(rawPrompt) /\ imageFile = NoFile)
        => /\ pc = "done"
           /\ outcome = "ValidationFailed"
           /\ outputDiv.kind = "validationWarning"
           /\ stage1Calls = 0
           /\ calls = 0

C1_Witness ==
    /\ pc = "done"
    /\ outcome = "ValidationFailed"
    /\ rawPrompt = <<" ">>
    /\ imageFile = NoFile

\* C2: when the ingredient-detection call answers with a success status,
\* success true and an empty ingredients array, the run ends in
\* IngredientsEmpty and the recipe-lookup operation is never invoked.
C2_EmptyIngredientsEndsWithoutStage2 ==
    ( /\ response.kind = "resolve"
      /\ response.ok
      /\ response.body.type = "object"
      /\ {"success", "ingredients"} \subseteq response.body.has
      /\ response.body.success
      /\ response.body.ingredients = <<>> )
        => /\ pc = "done"
           /\ outcome = "IngredientsEmpty"
           /\ outputDiv.kind = "noIngredients"
           /\ calls = 0
           /\ bo_pc = "idle"

C2_Witness ==
    /\ pc = "done"
    /\ outcome = "IngredientsEmpty"
    /\ response.ok
    /\ response.body.ingredients = <<>>
    /\ calls = 0

\* C3: a recipe-lookup response with a non-success status is a failed attempt
\* of the retry helper: whenever such a response was received, it was followed
\* by another attempt unless it was the third, and only the third one ends the
\* run, in Failed with "Recipe fetch failed: <statusText>".
C3_NonSuccessStatusIsRetried ==
    (pc = "done" /\ calls > 0)
        => \A k \in 1..calls :
              (plan[k].kind = "resolve" /\ ~plan[k].ok)
                 => /\ k = DefaultMaxRetries
                    /\ outcome = "Failed"
                    /\ message = RecipeFetchFailedMessage(plan[k].statusText)

Stage2AttemptFails(o) == o.kind = "reject" \/ (o.kind = "resolve" /\ ~o.ok)

Stage2AttemptSucceeds(o) ==
    /\ o.kind = "resolve"
    /\ o.ok
    /\ o.body.type = "object"
    /\ {"success", "recipes"} \subseteq o.body.has
    /\ o.body.success
    /\ o.body.recipes # <<>>

\* C4: when the recipe-lookup operation fails at its first and second attempt
\* (request rejected or non-success status) and succeeds at its third, the run
\* ends in Success showing the third attempt's recipes, after exactly three
\* invocations of the operation.
C4_ThirdAttemptSuccessIsUsed ==
    ( /\ pc = "done"
      /\ Len(plan) = DefaultMaxRetries
      /\ Stage2AttemptFails(plan[1])
      /\ Stage2AttemptFails(plan[2])
      /\ Stage2AttemptSucceeds(plan[3]) )
        => /\ outcome = "Success"
           /\ outputDiv.kind = "recipes"
           /\ outputDiv.recipes = RecipesHTML(plan[3].body.recipes)
           /\ calls = 3
           /\ bo_value.id = 3

\* C5: withExponentialBackoff invokes the operation at most maxRetries times;
\* every invocation but the latest was a failure, so nothing is invoked after
\* a success; and once an attempt succeeds the helper has returned that
\* attempt's result.
C5_AtMostMaxAttemptsStopAtFirstSuccess ==
    /\ calls <= maxRetries
    /\ \A k \in 1..(calls - 1) : plan[k].kind = "reject"
    /\ (calls > 0 /\ bo_pc # "awaitFn" /\ plan[calls].kind = "resolve")
          => /\ bo_pc = "returned"
             /\ bo_value = [id |-> calls, out |-> plan[calls]]
    /\ (bo_pc = "returned" /\ calls > 0) => plan[calls].kind = "resolve"

C5_Witness ==
    /\ bo_pc = "returned"
    /\ maxRetries = MaxAttempts
    /\ calls = 2
    /\ bo_value.id = 2

\* C6: the k-th delay withExponentialBackoff takes, the one that follows the
\* failure of attempt i = k - 1, is exactly 2^i * 1000 ms: 1000, 2000, 4000 for
\* i = 0, 1, 2; while the helper sleeps after attempt i, i + 1 delays were taken.
C6_DelayIsTwoToTheAttemptSeconds ==
    /\ \A k \in 1..Len(delays) : delays[k] = Pow2(k - 1) * 1000
    /\ Len(delays) >= 3 => SubSeq(delays, 1, 3) = <<1000, 2000, 4000>>
    /\ bo_pc = "sleeping" => Len(delays) = i + 1

C6_Witness ==
    /\ bo_pc = "sleeping"
    /\ i = 2
    /\ Len(delays) = 3

\* C7: when the last attempt (i = maxRetries - 1) fails, withExponentialBackoff
\* throws that attempt's error, unchanged, at once: no delay follows it and the
\* operation is not invoked again; whatever it throws is the last attempt's
\* error, never an earlier one's.
C7_LastErrorPropagatesAtOnce ==
    /\ bo_pc = "threw"
          => /\ calls = maxRetries
             /\ plan[maxRetries].kind = "reject"
             /\ bo_value = [id |-> maxRetries, out |-> plan[maxRetries]]
             /\ Len(delays) = maxRetries - 1
    /\ (maxRetries > 0 /\ calls = maxRetries /\ bo_pc # "awaitFn"
          /\ plan[maxRetries].kind = "reject")
          => bo_pc = "threw"

C7_Witness ==
    /\ bo_pc = "threw"
    /\ maxRetries = 3
    /\ plan[1].message # plan[3].message
    /\ bo_value.out.message = plan[3].message

\* C8: whenever a run has ended, in whichever outcome and by whichever path,
\* the submit control is enabled.
C8_SubmitEnabledAtEveryTerminal ==
    pc = "done" => ~buttonDisabled

C8_Witness ==
    /\ pc = "done"
    /\ outcome = "Failed"
    /\ calls = DefaultMaxRetries
    /\ ~buttonDisabled

Stage1Failure(r) ==
    \/ r.kind = "reject"
    \/ /\ r.kind = "resolve"
       /\ \/ ~r.ok
          \/ r.body.type # "object"
          \/ ~("success" \in r.body.has /\ r.body.success)
          \/ "ingredients" \notin r.body.has

\* C9: a run that passed validation has issued exactly one request to the
\* ingredient-detection endpoint, and when that request failed (rejected,
\* non-success status, unreadable or negative answer) the run has ended in
\* Failed without a second request and without the recipe-lookup stage.
C9_Stage1IssuedOnceNeverRetried ==
    /\ (pc \in {"stage1", "stage2"} \/ (pc = "done" /\ outcome # "ValidationFailed"))
          => stage1Calls = 1
    /\ Stage1Failure(response)
          => /\ pc = "done"
             /\ outcome = "Failed"
             /\ stage1Calls = 1
             /\ calls = 0

C9_Witness ==
    /\ pc = "done"
    /\ response = NetworkError
    /\ outcome = "Failed"
    /\ stage1Calls = 1

\* C10: when the ingredient-detection call answers with a non-success status,
\* the run ends in Failed without a recipe-lookup call, and the message is the
\* body's error field when the body is JSON carrying one, otherwise
\* "Server error: <status> <statusText>".
C10_Stage1NonSuccessMessage ==
    (response.kind = "resolve" /\ ~response.ok)
        => /\ pc = "done"
           /\ outcome = "Failed"
           /\ calls = 0
           /\ message =
                IF /\ response.body.type = "object"
                   /\ "error" \in response.body.has
                   /\ response.body.error # ""
                THEN response.body.error
                ELSE ServerErrorMessage(response.status, response.statusText)

Stage2SemanticError(o) ==
    /\ o.kind = "resolve"
    /\ o.ok
    /\ o.body.type = "object"
    /\ \/ ~("success" \in o.body.has /\ o.body.success)
       \/ "recipes" \notin o.body.has

\* C12: a well-formed recipe-lookup answer with success not true or recipes
\* absent is never retried: it is the last invocation of the operation, no
\* delay is taken after it, and the run ends in Failed with its message.
C12_Stage2SemanticErrorNotRetried ==
    (pc \in {"stage2", "done"} /\ calls > 0)
        => \A k \in 1..calls :
              (Stage2SemanticError(plan[k]) /\ (k < calls \/ bo_pc # "awaitFn"))
                 => /\ k = calls
                    /\ bo_pc \in {"returned", "idle"}
                    /\ Len(delays) = k - 1
                    /\ bo_value.id = k
                    /\ pc = "done"
                          => /\ outcome = "Failed"
                             /\ message = IF "error" \in plan[k].body.has
                                             /\ plan[k].body.error # ""
                                          THEN plan[k].body.error
                                          ELSE "Failed to get recipes"

C12_Witness ==
    /\ pc = "done"
    /\ calls = 2
    /\ Stage2SemanticError(plan[2])
    /\ plan[3].kind = "resolve"
    /\ outcome = "Failed"
    /\ message = "database down"

InFlight == pc \in {"stage1", "stage2"}

\* C13: from the moment a run has passed validation until it ends (ingredient
\* detection in flight, intermediate render, recipe lookup in flight, every
\* backoff delay) the submit control is disabled, so no user action can start
\* another run meanwhile.
C13_SubmitDisabledWhileInFlight ==
    InFlight => (buttonDisabled /\ ~ENABLED GetRecipes)

C13_Witness ==
    /\ pc = "stage2"
    /\ bo_pc = "sleeping"
    /\ Len(delays) = 2
    /\ buttonDisabled

\* C18: the recipe-lookup operation has been invoked only if the
\* ingredient-detection call answered with a success status, success true and
\* a non-empty ingredient list, and while the lookup is in progress the output
\* shows the intermediate "ingredients detected, finding recipes" markup with
\* exactly those ingredients.
C18_Stage2OnlyAfterStage1AndIntermediateRender ==
    (calls > 0 /\ pc # "idle")
        => /\ response.kind = "resolve"
           /\ response.ok
           /\ response.body.type = "object"
           /\ {"success", "ingredients"} \subseteq response.body.has
           /\ response.body.success
           /\ response.body.ingredients # <<>>
           /\ ingredientsList = response.body.ingredients
           /\ stage1Calls = 1
           /\ pc = "stage2"
                 => outputDiv = Markup("finding", response.body.ingredients, <<>>, 0, "")

C18_Witness ==
    /\ pc = "stage2"
    /\ calls = 1
    /\ bo_pc = "awaitFn"
    /\ outputDiv.kind = "finding"
    /\ outputDiv.ingredients = <<"egg", "flour">>

\* C20: once a run has ended, the output shows the final message of its
\* outcome and never one of the transient loading states ("Analyzing
\* ingredients...", "Finding recipes...").
C20_NoLoadingMarkupAtTerminal ==
    pc = "done"
        => /\ outputDiv.kind \notin {"initial", "analyzing", "finding"}
           /\ outputDiv.kind =
                CASE outcome = "ValidationFailed" -> "validationWarning"
                  [] outcome = "IngredientsEmpty" -> "noIngredients"
                  [] outcome = "RecipesEmpty" -> "noRecipes"
                  [] outcome = "Success" -> "recipes"
                  [] outcome = "Failed" -> "error"
                  [] OTHER -> "none"

C20_Witness ==
    /\ pc = "done"
    /\ outcome = "Failed"
    /\ calls = 1
    /\ message = RecipeFetchFailedMessage("Service Unavailable")
    /\ outputDiv.kind = "error"

\* C17: no step of the startup health probe (issued, fulfilled with any
\* status, rejected) changes the output markup, the submit control or any
\* other state of the pipeline; and whatever the probe's state (not issued,
\* pending, done) the user can start a run whenever the control is enabled and
\* a run in flight can receive its answers.
C17_HealthProbeLeavesPipelineAlone ==
    /\ [][health' # health => UNCHANGED <<pipeVars, boVars>>]_vars
    /\ [](~buttonDisabled => ENABLED GetRecipes)
    /\ [](pc = "stage1" => (ENABLED Stage1Resolves /\ ENABLED Stage1Rejects))

C17_Witness ==
    /\ health.pc = "done"
    /\ health.log = "Could not reach backend API: Failed to fetch"
    /\ health.url = <<"https://ingredient-analyzer-beta.vercel.app", "/api", "/health">>
    /\ pc = "stage2"
    /\ bo_pc = "sleeping"

\* C14: the card of a recipe with n ingredients lists the first min(n, 8) of
\* them in received order; it carries exactly one "+ (n - 8) more ingredients"
\* line when n > 8 and none when n <= 8 (10 ingredients: 8 lines and
\* "+ 2 more ingredients").
C14_CardListsFirstEightPlusMore ==
    recipeCard # NoCard
        => LET ings == recipeArg.recipe.ingredients
               n == Len(ings)
           IN  /\ Len(recipeCard.lines) = (IF n <= 8 THEN n ELSE 8)
               /\ \A k \in 1..Len(recipeCard.lines) :
                     recipeCard.lines[k] = "* " \o ings[k]
               /\ n > 8 => recipeCard.more = "+ " \o ToString(n - 8) \o " more ingredients"
               /\ n <= 8 => recipeCard.more = ""
               /\ n = 10 => /\ Len(recipeCard.lines) = 8
                            /\ recipeCard.more = "+ 2 more ingredients"

C14_Witness ==
    /\ Len(recipeArg.recipe.ingredients) = 10
    /\ recipeArg.recipe.ingredients[1] = "ingredient 10"
    /\ Len(recipeCard.lines) = 8
    /\ recipeCard.lines[8] = "* ingredient 3"
    /\ recipeCard.more = "+ 2 more ingredients"

\* C16: whichever way the file read ends (load, error, abort), the promise
\* of fileToBase64 is settled once the reader is done: fulfilled with the
\* encoding, without the data-URL prefix, on load; rejected on error and on
\* abort.
C16_EncoderSettlesOnEveryOutcome ==
    reader.readyState = "DONE"
        => /\ base64.state # "pending"
           /\ reader.event = "load"
                 => /\ base64.state = "fulfilled"
                    /\ base64.value = Base64(reader.file.bytes)
           /\ reader.event \in {"error", "abort"} => base64.state = "rejected"

Count(text, token) == Cardinality({k \in 1..Len(text) : text[k] = token})

Range(f) == {f[k] : k \in DOMAIN f}

IsBulletLine(l) == Len(l) >= 3 /\ l[1] = "*" /\ l[2] = " "

\* the lines that open a maximal run of consecutive "* " lines
BulletRuns(lines) ==
    {k \in 1..Len(lines) :
        IsBulletLine(lines[k]) /\ (k = 1 \/ ~IsBulletLine(lines[k - 1]))}

ExampleText ==
    Join(<< <<"#", "#", " ", "T">>, <<"*", " ", "a">>, <<"*", " ", "b">>,
            <<"*", "*", "b", "o", "*", "*">> >>, NL)

\* C15: the markdown transform turns every line starting with "* " into one
\* list item and wraps every maximal run of consecutive list items in one list
\* container; for a heading line, two "* " lines and a "**bold**" line the
\* result has one heading, one list container holding the two items, and one
\* strong-emphasis span.
C15_ListRunsWrappedOnce ==
    mdHtml # NoHtml
        => LET lines == Split(mdText, NL)
               bullets == {k \in 1..Len(lines) : IsBulletLine(lines[k])}
           IN  /\ Count(mdHtml, LiOpen) = Cardinality(bullets)
               /\ (\A k \in 1..Len(lines) : LiBare \notin Range(lines[k]))
                     => /\ Count(mdHtml, UlOpen) = Cardinality(BulletRuns(lines))
                        /\ Count(mdHtml, UlClose) = Cardinality(BulletRuns(lines))
               /\ mdText = ExampleText
                     => mdHtml = << H2Open, "T", H2Close, NL,
                                    UlOpen, LiOpen, "a", LiClose, NL,
                                    LiOpen, "b", LiClose, NL, UlClose,
                                    StrongOpen, "b", "o", StrongClose >>

Progress ==
    \/ Stage1Rejects
    \/ Stage1Resolves
    \/ FnResolves
    \/ FnRejects
    \/ TimerFires
    \/ Stage2Returned
    \/ Stage2Threw

\* C19: provided every HTTP call settles and every backoff timer fires, a run
\* that has disabled the submit control eventually ends and re-enables it; and
\* a run in flight always has a next step to take.
C19_RunTerminatesAndReenables ==
    /\ [](InFlight => ENABLED Progress)
    /\ buttonDisabled ~> (pc = "done" /\ ~buttonDisabled)

C19_Witness ==
    /\ pc = "done"
    /\ ~buttonDisabled
    /\ outcome = "Success"
    /\ calls = DefaultMaxRetries
    /\ delays = <<1000, 2000>>

====
